---- MODULE Spec2Model ----
(***************************************************************************)
(* SingleLinkedList<Type> of single-linked-list.h as a state machine over  *)
(* an explicit heap of nodes.  Two list objects ("a" and "b") are created, *)
(* mutated, copied, compared and destroyed; every public member function   *)
(* is one action.                                                          *)
(***************************************************************************)
EXTENDS Integers, Sequences, FiniteSets

\* Number of heap addresses operator new can hand out.
MaxNodes == 2
\* Longest std::initializer_list passed to the constructor.
MaxInit == 2
\* Longest list compared by operator< in SpecLex.
MaxLexLen == 3

VARIABLES
    ndebug,   \* TRUE iff the translation unit is compiled with NDEBUG (assert is a no-op)
    live,     \* live[l]: the list object l is constructed and not yet destroyed
    size,     \* size[l]: the member size_ of list l (size_t; only ++, -- and == are applied)
    next,     \* next[a]: the member next_node of the node at address a (sentinels included)
    val,      \* val[a]: the member value of the heap node at address a
    alloc,    \* heap addresses returned by new and not yet passed to delete
    status,   \* "running", "aborted" (an assert failed), "ub" (undefined behaviour was executed)
    last,     \* the last call made: its name, arguments, outcome and return value
    pre       \* the program state right before the last call

vars == <<ndebug, live, size, next, val, alloc, status, last, pre>>

\* The list objects of the client program.
Lists == {"a", "b"}
\* Function-local list objects: tmp of AddToHead, temp of operator=.
Locals == {"tmp", "temp"}
Objects == Lists \cup Locals
\* The template parameter Type: an ordered type with two values.  The list
\* only copies elements and compares them with == and <.
Values == {1, 2}
Heap == 1..MaxNodes

\* nullptr
Null == 0

\* Address of the sentinel head_ embedded in list l.
HeadOf(l) ==
    CASE l = "a" -> -1
      [] l = "b" -> -2
      [] l = "tmp" -> -3
      [] l = "temp" -> -4

Sentinels == {HeadOf(l) : l \in Objects}
Addr == Sentinels \cup Heap

\* Node(): value-initialised payload, next_node = nullptr.
NoVal == 0

----------------------------------------------------------------------------
(* Traversal *)

\* Addresses visited by ++it from n until nullptr (BasicIterator::operator++).
RECURSIVE NodesFrom(_, _)
NodesFrom(nx, n) ==
    IF n = Null THEN <<>> ELSE <<n>> \o NodesFrom(nx, nx[n])

\* Nodes of list l visited from begin() to end(), in program state hp.
ChainIn(hp, l) == NodesFrom(hp.next, hp.next[HeadOf(l)])

\* Values seen by dereferencing each iterator of begin()..end().
ElemsIn(hp, l) ==
    LET c == ChainIn(hp, l) IN [i \in 1..Len(c) |-> hp.val[c[i]]]

Range(s) == {s[i] : i \in 1..Len(s)}

\* The current program state as one record.
Cur == [live |-> live, size |-> size, next |-> next, val |-> val, alloc |-> alloc]

Chain(l) == ChainIn(Cur, l)
Elems(l) == ElemsIn(Cur, l)

\* GetSize()
GetSize(hp, l) == hp.size[l]

\* IsEmpty()
IsEmpty(hp, l) == hp.size[l] = 0

\* begin(): iterator on head_.next_node
Begin(hp, l) == hp.next[HeadOf(l)]

\* end(): iterator on nullptr
End == Null

\* before_begin(): iterator on &head_
BeforeBegin(l) == HeadOf(l)

----------------------------------------------------------------------------
(* Results of a call *)

\* outcome: "ok"; "bad_alloc" (new threw); "aborted" (an assert failed);
\* "ub" (undefined behaviour was executed, here always a null dereference).
Res(hp, outcome, ret) == [hp |-> hp, outcome |-> outcome, ret |-> ret]

\* assert(cond) under the build's NDEBUG setting.
AssertFails(cond) == ~ndebug /\ ~cond

----------------------------------------------------------------------------
(* Allocation *)

\* The address `new Node` returns: first fit among the addresses not
\* allocated; Null when the heap is exhausted (new throws std::bad_alloc).
NewAddr(hp) ==
    LET free == Heap \ hp.alloc IN
    IF free = {} THEN Null ELSE CHOOSE n \in free : \A m \in free : n <= m

\* new Node(v, nx) placed at address n.
NewNode(hp, n, v, nx) ==
    [hp EXCEPT !.val[n] = v, !.next[n] = nx, !.alloc = @ \cup {n}]

\* delete n: the address returns to the allocator, its content is dead.
DeleteNode(hp, n) ==
    [hp EXCEPT !.val[n] = NoVal, !.next[n] = Null, !.alloc = @ \ {n}]

----------------------------------------------------------------------------
(* Member functions, as functions of the program state *)

\* SingleLinkedList(): size_(0); head_.next_node = nullptr by its initialiser.
DefaultCtorOn(hp, l) ==
    [hp EXCEPT !.live[l] = TRUE, !.size[l] = 0, !.next[HeadOf(l)] = Null]

\* swap that exchanges the chains but not the counts.
SwapKeepsSizes(hp, l, o) ==
    [hp EXCEPT !.next[HeadOf(l)] = hp.next[HeadOf(o)],
               !.next[HeadOf(o)] = hp.next[HeadOf(l)]]

\* swap(other)
SwapOn(hp, l, o) ==
    [hp EXCEPT !.next[HeadOf(l)] = hp.next[HeadOf(o)],
               !.next[HeadOf(o)] = hp.next[HeadOf(l)],
               !.size[l] = hp.size[o],
               !.size[o] = hp.size[l]]

\* Clear(): while (head_.next_node != nullptr) { unlink, delete, --size_ }
RECURSIVE ClearOn(_, _)
ClearOn(hp, l) ==
    IF hp.next[HeadOf(l)] = Null THEN hp
    ELSE LET temp == hp.next[HeadOf(l)]
             h1 == [hp EXCEPT !.next[HeadOf(l)] = hp.next[temp]]
             h2 == DeleteNode(h1, temp)
         IN ClearOn([h2 EXCEPT !.size[l] = @ - 1], l)

\* ~SingleLinkedList(): Clear(); the object's storage is gone afterwards.
DtorOn(hp, l) ==
    [ClearOn(hp, l) EXCEPT !.live[l] = FALSE, !.size[l] = 0]

\* PushFront with the new node linked to nullptr instead of the old first node.
PushFrontDropsTail(hp, l, v, n) ==
    IF n = Null THEN Res(hp, "bad_alloc", Null)
    ELSE LET h1 == NewNode(hp, n, v, Null)
         IN Res([h1 EXCEPT !.next[HeadOf(l)] = n, !.size[l] = @ + 1], "ok", Null)

\* PushFront(value); n is the address new returns, Null if it throws.
PushFrontOn(hp, l, v, n) ==
    IF n = Null THEN Res(hp, "bad_alloc", Null)
    ELSE LET h1 == NewNode(hp, n, v, hp.next[HeadOf(l)])
         IN Res([h1 EXCEPT !.next[HeadOf(l)] = n, !.size[l] = @ + 1], "ok", Null)

\* InsertAfter(pos, value); n is the address new returns, Null if it throws.
InsertAfterOn(hp, l, pos, v, n) ==
    IF AssertFails(pos # End) THEN Res(hp, "aborted", Null)
    ELSE IF n = Null THEN Res(hp, "bad_alloc", Null)
    ELSE IF pos = Null THEN Res(hp, "ub", Null)
    ELSE LET h1 == NewNode(hp, n, v, Null)
         IN Res([h1 EXCEPT !.next[pos] = n, !.size[l] = @ + 1], "ok", n)

\* PopFront()
PopFrontOn(hp, l) ==
    IF AssertFails(~IsEmpty(hp, l)) THEN Res(hp, "aborted", Null)
    ELSE LET deleted_node == hp.next[HeadOf(l)] IN
         IF deleted_node = Null THEN Res(hp, "ub", Null)
         ELSE LET h1 == [hp EXCEPT !.next[HeadOf(l)] = hp.next[deleted_node]]
                  h2 == DeleteNode(h1, deleted_node)
              IN Res([h2 EXCEPT !.size[l] = @ - 1], "ok", Null)

\* EraseAfter without --size_.
EraseAfterKeepsSize(hp, l, pos) ==
    IF AssertFails(~IsEmpty(hp, l)) THEN Res(hp, "aborted", Null)
    ELSE IF AssertFails(pos # Null) THEN Res(hp, "aborted", Null)
    ELSE IF pos = Null THEN Res(hp, "ub", Null)
    ELSE IF hp.next[pos] = Null THEN Res(hp, "ub", Null)
    ELSE LET victim == hp.next[pos]
             temp == hp.next[victim]
             h1 == DeleteNode(hp, victim)
         IN Res([h1 EXCEPT !.next[pos] = temp], "ok", temp)

\* EraseAfter(pos)
EraseAfterOn(hp, l, pos) ==
    IF AssertFails(~IsEmpty(hp, l)) THEN Res(hp, "aborted", Null)
    ELSE IF AssertFails(pos # Null) THEN Res(hp, "aborted", Null)
    ELSE IF pos = Null THEN Res(hp, "ub", Null)
    ELSE IF hp.next[pos] = Null THEN Res(hp, "ub", Null)
    ELSE LET victim == hp.next[pos]
             temp == hp.next[victim]
             h1 == DeleteNode(hp, victim)
         IN Res([h1 EXCEPT !.next[pos] = temp, !.size[l] = @ - 1], "ok", temp)

\* The loop of AddToHead: appends a node per value at node_ptr (the address
\* `at` whose next_node is written).  The first `avail` allocations succeed
\* if the heap has room; the next one throws.  avail = Len(vals): none is made to fail.
RECURSIVE FillTmp(_, _, _, _)
FillTmp(hp, vals, at, avail) ==
    IF vals = <<>> THEN Res(hp, "ok", Null)
    ELSE IF AssertFails(hp.next[at] = Null) THEN Res(hp, "aborted", Null)
    ELSE LET n == IF avail = 0 THEN Null ELSE NewAddr(hp) IN
         IF n = Null THEN Res(hp, "bad_alloc", Null)
         ELSE LET h1 == NewNode(hp, n, Head(vals), Null)
                  h2 == [h1 EXCEPT !.next[at] = n, !.size["tmp"] = @ + 1]
              IN FillTmp(h2, Tail(vals), n, avail - 1)

\* AddToHead(from, to) on list l, vals being *from .. *(to - 1).
AddToHeadOn(hp, l, vals, avail) ==
    LET r == FillTmp(DefaultCtorOn(hp, "tmp"), vals, HeadOf("tmp"), avail) IN
    IF r.outcome = "ok" THEN Res(DtorOn(SwapOn(r.hp, l, "tmp"), "tmp"), "ok", Null)
    ELSE IF r.outcome = "bad_alloc" THEN Res(DtorOn(r.hp, "tmp"), "bad_alloc", Null)
    ELSE Res(hp, r.outcome, Null)

\* A constructor that ends by an exception leaves no object behind.
Unconstructed(hp, l) ==
    [hp EXCEPT !.live[l] = FALSE, !.size[l] = 0, !.next[HeadOf(l)] = Null]

\* The initializer_list constructor with every node pushed at the front.
InitListReversed(hp, l, vals, avail, g) ==
    LET rev == [i \in 1..Len(vals) |-> vals[Len(vals) + 1 - i]]
        h0 == [hp EXCEPT !.size[l] = g, !.next[HeadOf(l)] = Null]
        r == AddToHeadOn(h0, l, rev, avail)
    IN IF r.outcome = "ok" THEN Res([r.hp EXCEPT !.live[l] = TRUE], "ok", Null)
       ELSE IF r.outcome = "bad_alloc" THEN Res(Unconstructed(r.hp, l), "bad_alloc", Null)
       ELSE Res(hp, r.outcome, Null)

\* SingleLinkedList(std::initializer_list<Type> values): size_ has no
\* initialiser, so it holds an indeterminate value g when AddToHead swaps it.
InitListCtorOn(hp, l, vals, avail, g) ==
    LET h0 == [hp EXCEPT !.size[l] = g, !.next[HeadOf(l)] = Null]
        r == AddToHeadOn(h0, l, vals, avail)
    IN IF r.outcome = "ok" THEN Res([r.hp EXCEPT !.live[l] = TRUE], "ok", Null)
       ELSE IF r.outcome = "bad_alloc" THEN Res(Unconstructed(r.hp, l), "bad_alloc", Null)
       ELSE Res(hp, r.outcome, Null)

\* SingleLinkedList(const SingleLinkedList& other)
CopyCtorOn(hp, l, other, avail) ==
    LET h0 == [hp EXCEPT !.size[l] = hp.size[other], !.next[HeadOf(l)] = Null] IN
    IF AssertFails(h0.size[l] = 0 /\ h0.next[HeadOf(l)] = Null)
    THEN Res(hp, "aborted", Null)
    ELSE LET r == AddToHeadOn(h0, l, ElemsIn(h0, other), avail) IN
         IF r.outcome = "ok" THEN Res([r.hp EXCEPT !.live[l] = TRUE], "ok", Null)
         ELSE IF r.outcome = "bad_alloc"
              THEN Res(Unconstructed(r.hp, l), "bad_alloc", Null)
         ELSE Res(hp, r.outcome, Null)

\* operator= that clears the target first and copies into it afterwards.
AssignClearsFirst(hp, l, rhs, avail) ==
    IF l = rhs THEN Res(hp, "ok", Null)
    ELSE LET h0 == ClearOn(hp, l)
             t == CopyCtorOn(h0, "temp", rhs, avail)
         IN IF t.outcome = "ok"
            THEN Res(DtorOn(SwapOn(t.hp, l, "temp"), "temp"), "ok", Null)
            ELSE IF t.outcome = "bad_alloc" THEN t
            ELSE Res(hp, t.outcome, Null)

\* operator=(rhs)
AssignOn(hp, l, rhs, avail) ==
    IF l = rhs THEN Res(hp, "ok", Null)
    ELSE LET t == CopyCtorOn(hp, "temp", rhs, avail) IN
         IF t.outcome = "ok"
         THEN Res(DtorOn(SwapOn(t.hp, l, "temp"), "temp"), "ok", Null)
         ELSE t

----------------------------------------------------------------------------
(* Comparison operators *)

\* *it on a ConstIterator: operator* asserts node_ != nullptr, then reads.
NullDeref == IF ndebug THEN "ub" ELSE "aborted"

\* std::equal(first1, last1 = end, first2): "true", "false", or the
\* outcome of dereferencing first2 past its end.
RECURSIVE StdEqual(_, _, _)
StdEqual(hp, f1, f2) ==
    IF f1 = End THEN "true"
    ELSE IF f2 = Null THEN NullDeref
    ELSE IF hp.val[f1] # hp.val[f2] THEN "false"
    ELSE StdEqual(hp, hp.next[f1], hp.next[f2])

\* A comparison that takes a range for smaller as soon as it is exhausted.
RECURSIVE LexLessOrPrefix(_, _, _)
LexLessOrPrefix(hp, f1, f2) ==
    IF f1 # End /\ f2 # End
    THEN IF hp.val[f1] < hp.val[f2] THEN TRUE
         ELSE IF hp.val[f2] < hp.val[f1] THEN FALSE
         ELSE LexLessOrPrefix(hp, hp.next[f1], hp.next[f2])
    ELSE f1 = End

\* std::lexicographical_compare(first1, end, first2, end)
RECURSIVE LexLess(_, _, _)
LexLess(hp, f1, f2) ==
    IF f1 # End /\ f2 # End
    THEN IF hp.val[f1] < hp.val[f2] THEN TRUE
         ELSE IF hp.val[f2] < hp.val[f1] THEN FALSE
         ELSE LexLess(hp, hp.next[f1], hp.next[f2])
    ELSE f1 = End /\ f2 # End

\* operator==: GetSize() of both equal, and then std::equal over lhs's range
\* against rhs.cbegin().  (The source line carries a stray "()" and "&&"
\* between the two operands.)  "true", "false", "ub" or "aborted".
OpEq(hp, lhs, rhs) ==
    IF GetSize(hp, lhs) # GetSize(hp, rhs) THEN "false"
    ELSE StdEqual(hp, Begin(hp, lhs), Begin(hp, rhs))

\* operator!=
OpNe(hp, lhs, rhs) ==
    LET e == OpEq(hp, lhs, rhs) IN
    IF e = "true" THEN "false" ELSE IF e = "false" THEN "true" ELSE e

\* operator<
OpLt(hp, lhs, rhs) == LexLess(hp, Begin(hp, lhs), Begin(hp, rhs))

\* operator<=
OpLe(hp, lhs, rhs) == ~OpLt(hp, rhs, lhs)

\* operator>
OpGt(hp, lhs, rhs) == OpLt(hp, rhs, lhs)

\* operator>=
OpGe(hp, lhs, rhs) == ~OpLt(hp, lhs, lhs)

----------------------------------------------------------------------------
(* The client program: one call per step *)

NoCmp == [eq |-> FALSE, ne |-> FALSE, lt |-> FALSE, le |-> FALSE, gt |-> FALSE, ge |-> FALSE]

\* vals: the values of the initializer_list argument, <<>> for the other calls.
Call(op, l, r, pos, v) ==
    [op |-> op, l |-> l, r |-> r, pos |-> pos, v |-> v, vals |-> <<>>,
     outcome |-> "ok", ret |-> Null, cmp |-> NoCmp]

Fatal == {"aborted", "ub"}

\* The call c is made and ends as r says.  abort() and undefined behaviour
\* end the program in the state the call found.
Do(c, r) ==
    /\ status = "running"
    /\ last' = [c EXCEPT !.outcome = r.outcome, !.ret = r.ret]
    /\ pre' = Cur
    /\ status' = IF r.outcome \in Fatal THEN r.outcome ELSE "running"
    /\ live' = r.hp.live
    /\ size' = r.hp.size
    /\ next' = r.hp.next
    /\ val' = r.hp.val
    /\ alloc' = r.hp.alloc
    /\ UNCHANGED ndebug

\* new either returns the first-fit address or throws.
NewOutcomes(hp) == {NewAddr(hp), Null}

\* Iterators a client holds on list l: end(), before_begin(), and one per node.
Positions(l) == {End, BeforeBegin(l)} \cup Range(Chain(l))

InitLists == UNION {[1..k -> Values] : k \in 0..MaxInit}

Init ==
    /\ ndebug \in BOOLEAN
    /\ live = [l \in Objects |-> FALSE]
    /\ size = [l \in Objects |-> 0]
    /\ next = [a \in Addr |-> Null]
    /\ val = [a \in Heap |-> NoVal]
    /\ alloc = {}
    /\ status = "running"
    /\ last = Call("Init", "-", "-", Null, NoVal)
    /\ pre = [live |-> live, size |-> size, next |-> next, val |-> val, alloc |-> alloc]

DefaultCtor(l) ==
    /\ ~live[l]
    /\ Do(Call("DefaultCtor", l, "-", Null, NoVal), Res(DefaultCtorOn(Cur, l), "ok", Null))

InitListCtor(l, vals, avail, g) ==
    /\ ~live[l]
    /\ Do([Call("InitListCtor", l, "-", Null, NoVal) EXCEPT !.vals = vals],
          InitListCtorOn(Cur, l, vals, avail, g))

CopyCtor(l, other, avail) ==
    /\ ~live[l]
    /\ live[other]
    /\ Do(Call("CopyCtor", l, other, Null, NoVal), CopyCtorOn(Cur, l, other, avail))

Dtor(l) ==
    /\ live[l]
    /\ Do(Call("Dtor", l, "-", Null, NoVal), Res(DtorOn(Cur, l), "ok", Null))

PushFront(l, v, n) ==
    /\ live[l]
    /\ Do(Call("PushFront", l, "-", Null, v), PushFrontOn(Cur, l, v, n))

InsertAfter(l, pos, v, n) ==
    /\ live[l]
    /\ Do(Call("InsertAfter", l, "-", pos, v), InsertAfterOn(Cur, l, pos, v, n))

PopFront(l) ==
    /\ live[l]
    /\ Do(Call("PopFront", l, "-", Null, NoVal), PopFrontOn(Cur, l))

EraseAfter(l, pos) ==
    /\ live[l]
    /\ Do(Call("EraseAfter", l, "-", pos, NoVal), EraseAfterOn(Cur, l, pos))

Clear(l) ==
    /\ live[l]
    /\ Do(Call("Clear", l, "-", Null, NoVal), Res(ClearOn(Cur, l), "ok", Null))

Assign(l, rhs, avail) ==
    /\ live[l]
    /\ live[rhs]
    /\ Do(Call("Assign", l, rhs, Null, NoVal), AssignOn(Cur, l, rhs, avail))

\* l.swap(other)
Swap(l, other) ==
    /\ live[l]
    /\ live[other]
    /\ Do(Call("Swap", l, other, Null, NoVal), Res(SwapOn(Cur, l, other), "ok", Null))

\* swap(lhs, rhs): lhs.swap(rhs)
FreeSwap(lhs, rhs) ==
    /\ live[lhs]
    /\ live[rhs]
    /\ Do(Call("FreeSwap", lhs, rhs, Null, NoVal), Res(SwapOn(Cur, lhs, rhs), "ok", Null))

\* The client evaluates all six comparison operators on (lhs, rhs).
Compare(lhs, rhs) ==
    /\ live[lhs]
    /\ live[rhs]
    /\ LET e == OpEq(Cur, lhs, rhs)
           c == Call("Compare", lhs, rhs, Null, NoVal)
       IN IF e \in Fatal
          THEN Do(c, Res(Cur, e, Null))
          ELSE Do([c EXCEPT !.cmp = [eq |-> e = "true",
                                     ne |-> OpNe(Cur, lhs, rhs) = "true",
                                     lt |-> OpLt(Cur, lhs, rhs),
                                     le |-> OpLe(Cur, lhs, rhs),
                                     gt |-> OpGt(Cur, lhs, rhs),
                                     ge |-> OpGe(Cur, lhs, rhs)]],
                  Res(Cur, "ok", Null))

Next ==
    \/ \E l \in Lists : DefaultCtor(l)
    \/ \E l \in Lists, vals \in InitLists, g \in 0..1 : \E avail \in 0..Len(vals) :
          InitListCtor(l, vals, avail, g)
    \/ \E l \in Lists, other \in Lists : \E avail \in 0..Len(Chain(other)) :
          CopyCtor(l, other, avail)
    \/ \E l \in Lists : Dtor(l)
    \/ \E l \in Lists, v \in Values, n \in NewOutcomes(Cur) : PushFront(l, v, n)
    \/ \E l \in Lists : \E pos \in Positions(l), v \in Values, n \in NewOutcomes(Cur) :
          InsertAfter(l, pos, v, n)
    \/ \E l \in Lists : PopFront(l)
    \/ \E l \in Lists : \E pos \in Positions(l) : EraseAfter(l, pos)
    \/ \E l \in Lists : Clear(l)
    \/ \E l \in Lists, rhs \in Lists : \E avail \in 0..Len(Chain(rhs)) :
          Assign(l, rhs, avail)
    \/ \E l \in Lists, other \in Lists : Swap(l, other)
    \/ \E lhs \in Lists, rhs \in Lists : FreeSwap(lhs, rhs)
    \/ \E lhs \in Lists, rhs \in Lists : Compare(lhs, rhs)

Spec == Init /\ [][Next]_vars

----------------------------------------------------------------------------
(* operator< on its own: a client that builds two lists from initializer
   lists of up to MaxLexLen values of a three-valued Type and compares them *)

LexValues == {1, 2, 3}
LexHeap == 1..(2 * MaxLexLen)
LexAddr == Sentinels \cup LexHeap
LexLists == UNION {[1..k -> LexValues] : k \in 0..MaxLexLen}

\* The heap after SingleLinkedList a{xs}, b{ys}: AddToHead has linked the
\* nodes of a at 1..Len(xs) and those of b right after them, in the order of
\* the values, and counted them in size_.
LexBuilt(xs, ys) ==
    LET na == Len(xs)
        nb == Len(ys)
    IN [live  |-> [l \in Objects |-> l \in Lists],
        size  |-> [l \in Objects |-> IF l = "a" THEN na ELSE IF l = "b" THEN nb ELSE 0],
        next  |-> [n \in LexAddr |->
                     IF n = HeadOf("a") THEN (IF na = 0 THEN Null ELSE 1)
                     ELSE IF n = HeadOf("b") THEN (IF nb = 0 THEN Null ELSE na + 1)
                     ELSE IF n \in 1..(na + nb) /\ n # na /\ n # na + nb THEN n + 1
                     ELSE Null],
        val   |-> [n \in LexHeap |->
                     IF n \in 1..na THEN xs[n]
                     ELSE IF n \in (na + 1)..(na + nb) THEN ys[n - na]
                     ELSE NoVal],
        alloc |-> 1..(na + nb)]

LexInit ==
    /\ ndebug \in BOOLEAN
    /\ status = "running"
    /\ last = Call("Init", "-", "-", Null, NoVal)
    /\ \E xs \in LexLists, ys \in LexLists :
          /\ live = LexBuilt(xs, ys).live
          /\ size = LexBuilt(xs, ys).size
          /\ next = LexBuilt(xs, ys).next
          /\ val = LexBuilt(xs, ys).val
          /\ alloc = LexBuilt(xs, ys).alloc
          /\ pre = LexBuilt(xs, ys)

\* lhs < rhs
Less(lhs, rhs) ==
    /\ live[lhs]
    /\ live[rhs]
    /\ Do([Call("Less", lhs, rhs, Null, NoVal) EXCEPT !.cmp.lt = OpLt(Cur, lhs, rhs)],
          Res(Cur, "ok", Null))

LexNext == \E lhs \in Lists, rhs \in Lists : Less(lhs, rhs)

SpecLex == LexInit /\ [][LexNext]_vars

----------------------------------------------------------------------------
(* Properties *)

PreChain(l) == ChainIn(pre, l)
PreElems(l) == ElemsIn(pre, l)

\* Index in chain c of the node an iterator refers to; 0 for before_begin().
Idx(c, n) == IF n \in Sentinels THEN 0 ELSE CHOOSE i \in 1..Len(c) : c[i] = n

\* The last call was op and it returned normally.
Returned(op) == last.op = op /\ last.outcome = "ok"

\* C1: in every reachable state, GetSize() of every live list is the number
\* of nodes reachable from its head sentinel by next-links.
C1_SizeIsNodeCount ==
    \A l \in Lists : live[l] => GetSize(Cur, l) = Len(Chain(l))

\* C2: InsertAfter(pos, value) with pos = before_begin() or a node of the list
\* returns, leaves the old sequence with value inserted right after pos (the
\* elements that followed pos now follow the new one), grows the size by 1
\* and returns an iterator on the new node.
C2_InsertAfterSplices ==
    (last.op = "InsertAfter" /\ last.pos # End /\ last.outcome # "bad_alloc") =>
        LET l == last.l
            old == PreElems(l)
            k == Idx(PreChain(l), last.pos)
        IN /\ last.outcome = "ok"
           /\ Elems(l) = SubSeq(old, 1, k) \o <<last.v>> \o SubSeq(old, k + 1, Len(old))
           /\ GetSize(Cur, l) = GetSize(pre, l) + 1
           /\ Len(Chain(l)) > k
           /\ last.ret = Chain(l)[k + 1]

\* C3: InsertAfter(before_begin(), v) leaves the list with the element
\* sequence and the size that PushFront(v) gives the same list.
C3_InsertAtBeforeBeginIsPushFront ==
    (Returned("InsertAfter") /\ last.pos = BeforeBegin(last.l)) =>
        LET l == last.l
            p == PushFrontOn(pre, l, last.v, NewAddr(pre))
        IN /\ Elems(l) = ElemsIn(p.hp, l)
           /\ GetSize(Cur, l) = GetSize(p.hp, l)

\* C4: after Clear() the list is empty (IsEmpty(), GetSize() = 0, no node
\* reachable from the head); Clear() on an empty list changes nothing.
C4_ClearEmpties ==
    last.op = "Clear" =>
        LET l == last.l
        IN /\ last.outcome = "ok"
           /\ IsEmpty(Cur, l)
           /\ GetSize(Cur, l) = 0
           /\ Chain(l) = <<>>
           /\ (IsEmpty(pre, l) => Cur = pre)

\* C5: A >= B is true exactly when A < B is false.
C5_GeIsNotLt ==
    Returned("Compare") => (last.cmp.ge <=> ~last.cmp.lt)

\* C6: A == B is true iff the sizes are equal and the element sequences are
\* equal; A == A is true; A != B is the negation of A == B.
C6_EqIsSizeAndElements ==
    last.op = "Compare" =>
        /\ last.outcome = "ok"
        /\ last.cmp.eq <=> (/\ GetSize(Cur, last.l) = GetSize(Cur, last.r)
                            /\ Elems(last.l) = Elems(last.r))
        /\ (last.l = last.r => last.cmp.eq)
        /\ last.cmp.ne <=> ~last.cmp.eq

\* The mutating member functions that take no other list.
Mutators == {"PushFront", "PopFront", "InsertAfter", "EraseAfter", "Clear"}

\* C7: copy construction of B from A gives B the element sequence and size
\* of A and leaves A as it was; no node is reachable from two lists; a
\* mutation of one list leaves the other list's sequence and size unchanged.
C7_CopyIsDeep ==
    /\ (last.op = "CopyCtor" /\ last.outcome # "bad_alloc") =>
          /\ last.outcome = "ok"
          /\ Elems(last.l) = PreElems(last.r)
          /\ GetSize(Cur, last.l) = GetSize(pre, last.r)
          /\ Chain(last.r) = PreChain(last.r)
          /\ Elems(last.r) = PreElems(last.r)
          /\ GetSize(Cur, last.r) = GetSize(pre, last.r)
    /\ \A l1 \in Lists, l2 \in Lists :
          (l1 # l2 /\ live[l1] /\ live[l2]) =>
              Range(Chain(l1)) \cap Range(Chain(l2)) = {}
    /\ last.op \in Mutators =>
          \A o \in Lists \ {last.l} :
              live[o] => /\ Elems(o) = PreElems(o)
                         /\ GetSize(Cur, o) = GetSize(pre, o)

C9_EraseAfterUnlinksOne ==
    (last.op = "EraseAfter" /\ last.pos # End /\ pre.next[last.pos] # Null) =>
        LET l == last.l
            pos == last.pos
            victim == pre.next[pos]
            old == PreChain(l)
            k == Idx(old, pos)
        IN /\ last.outcome = "ok"
           /\ alloc = pre.alloc \ {victim}
           /\ GetSize(Cur, l) = GetSize(pre, l) - 1
           /\ victim \notin Range(Chain(l))
           /\ Chain(l) = SubSeq(old, 1, k) \o SubSeq(old, k + 2, Len(old))
           /\ \A n \in Range(Chain(l)) : val[n] = pre.val[n]
           /\ next[pos] = pre.next[victim]
           /\ last.ret = next[pos]

\* EraseAfter returned an iterator on a node: the erased node had a successor.
C9_Witness ==
    /\ Returned("EraseAfter")
    /\ last.ret # End
    /\ last.ret = pre.next[pre.next[last.pos]]

\* C10: a PushFront(v) that returns, followed by PopFront() on the same
\* list, leaves the list with the size and element sequence it had before
\* the PushFront.
C10_PushThenPopRestores ==
    [][(Returned("PushFront") /\ last'.op = "PopFront" /\ last'.l = last.l) =>
          /\ last'.outcome = "ok"
          /\ ElemsIn([next |-> next', val |-> val'], last.l) = PreElems(last.l)
          /\ size'[last.l] = GetSize(pre, last.l)]_vars

\* PopFront returned, and the state it found is the one PushFront(v) makes
\* of the state it left.
C10_Witness ==
    /\ Returned("PopFront")
    /\ \E v \in Values, n \in Heap \ alloc :
          PushFrontOn(Cur, last.l, v, n).hp = pre

\* C11: swap (member or free function) gives each list the other's node
\* chain, element sequence and size; no node is allocated, freed or written;
\* swapping the same two lists again restores the state before the swap.
C11_SwapExchanges ==
    (last.op \in {"Swap", "FreeSwap"}) =>
        LET l == last.l
            r == last.r
        IN /\ last.outcome = "ok"
           /\ Chain(l) = PreChain(r) /\ Chain(r) = PreChain(l)
           /\ Elems(l) = PreElems(r) /\ Elems(r) = PreElems(l)
           /\ GetSize(Cur, l) = GetSize(pre, r) /\ GetSize(Cur, r) = GetSize(pre, l)
           /\ alloc = pre.alloc
           /\ val = pre.val
           /\ \A n \in Heap : next[n] = pre.next[n]
           /\ SwapOn(Cur, l, r) = pre

\* Two lists with different contents and sizes were swapped by the free function.
C11_Witness ==
    /\ Returned("FreeSwap")
    /\ last.l # last.r
    /\ Elems(last.l) # Elems(last.r)
    /\ GetSize(Cur, last.l) # GetSize(Cur, last.r)

\* C13: the initializer_list constructor, when it returns, leaves a list
\* whose traversal from begin() to end() visits the given values in the
\* given order and whose GetSize() is their number.
C13_InitListKeepsOrder ==
    Returned("InitListCtor") =>
        /\ live[last.l]
        /\ Elems(last.l) = last.vals
        /\ GetSize(Cur, last.l) = Len(last.vals)
        /\ (last.vals = <<>> => IsEmpty(Cur, last.l) /\ Begin(Cur, last.l) = End)

\* A list was constructed from two different values, the larger one first.
C13_Witness ==
    /\ Returned("InitListCtor")
    /\ last.vals = <<2, 1>>
    /\ Elems(last.l) = <<2, 1>>

\* s precedes t in the strict lexicographic order: after a common prefix of
\* k elements either s has ended and t has not, or both go on and the next
\* element of s is the smaller one.
SeqLess(s, t) ==
    \E k \in 0..Len(s) :
        /\ k <= Len(t)
        /\ \A i \in 1..k : s[i] = t[i]
        /\ \/ k = Len(s) /\ k < Len(t)
           \/ k < Len(s) /\ k < Len(t) /\ s[k + 1] < t[k + 1]

Reachable == UNION {Range(Chain(l)) : l \in {x \in Lists : live[x]}}

\* C14: in every state the allocated nodes are exactly the nodes reachable
\* from the heads of the live lists, and once a list is destroyed none of
\* the nodes that were on its chain is still allocated.
C14_AllocatedIsReachable ==
    /\ alloc = Reachable
    /\ Returned("Dtor") => Range(PreChain(last.l)) \cap alloc = {}

\* The part of chain c visited by advancing an iterator held on node n.
After(c, n) == SubSeq(c, Idx(c, n) + 1, Len(c))

Without(s, x) == SelectSeq(s, LAMBDA y : y # x)

\* C15: InsertAfter and EraseAfter leave every other node that was on the
\* list (all but the erased one) on the list with its value, and advancing
\* from it visits the nodes that followed it before, in the same order,
\* without the erased node and with nothing but the inserted node added.
C15_IteratorsStayValid ==
    (last.op \in {"InsertAfter", "EraseAfter"} /\ last.outcome = "ok") =>
        LET l == last.l
            erased == IF last.op = "EraseAfter" THEN pre.next[last.pos] ELSE Null
            added == IF last.op = "InsertAfter" THEN last.ret ELSE Null
        IN \A n \in Range(PreChain(l)) \ {erased} :
              /\ n \in Range(Chain(l))
              /\ val[n] = pre.val[n]
              /\ Without(After(Chain(l), n), added) = Without(After(PreChain(l), n), erased)

\* C16: a copy-assignment l = r does not abort; when it returns with l and r
\* distinct, l has r's element sequence and size in nodes that did not exist
\* before, r is as it was, and every node l held before is freed; when it
\* returns with l and r the same list, nothing has changed.
C16_AssignCopies ==
    (last.op = "Assign" /\ last.outcome # "bad_alloc") =>
        LET l == last.l
            r == last.r
        IN /\ last.outcome = "ok"
           /\ l # r =>
                /\ Elems(l) = PreElems(r)
                /\ GetSize(Cur, l) = GetSize(pre, r)
                /\ Range(Chain(l)) \cap pre.alloc = {}
                /\ Chain(r) = PreChain(r) /\ Elems(r) = PreElems(r)
                /\ GetSize(Cur, r) = GetSize(pre, r)
                /\ Range(PreChain(l)) \cap alloc = {}
           /\ l = r => Cur = pre

C18_CopyNeverAborts ==
    (last.op \in {"CopyCtor", "Assign"}) => last.outcome # "aborted"

\* C19: a live list for which IsEmpty() is false has a first node, and
\* PopFront() called on such a list detaches it and returns.
C19_NonEmptyHasFirstNode ==
    /\ \A l \in Lists : (live[l] /\ ~IsEmpty(Cur, l)) => next[HeadOf(l)] # Null
    /\ (last.op = "PopFront" /\ ~IsEmpty(pre, last.l)) => last.outcome = "ok"

\* C20: for every live list, IsEmpty() is true exactly when begin() == end().
C20_EmptyIffBeginIsEnd ==
    \A l \in Lists : live[l] => (IsEmpty(Cur, l) <=> (Begin(Cur, l) = End))

====
